---------------------------- MODULE Spec2Model ----------------------------
(***************************************************************************)
(* A model of the Meal Mate LINE bot (src/main.py, src/models.py): the     *)
(* webhook, its four event handlers, the classifier text parsing, the      *)
(* food / non-food cards, the PendingMealToken carried in postback data    *)
(* and the meal_records table.                                             *)
(*                                                                         *)
(* Text is a sequence of one-character strings, so that prefix tests,      *)
(* slicing, find / rfind and the JSON encoding act on characters as the    *)
(* Python code does.  A character outside ASCII is written as one symbol   *)
(* ("U0E1C" is the code point U+0E1C); fixed user-facing Thai texts are    *)
(* one symbol each, named after what they say.                             *)
(***************************************************************************)
EXTENDS Integers, Sequences, FiniteSets, TLC

(***************************************************************************)
(* Bounds of the model.                                                    *)
(***************************************************************************)
MaxRecords == 2
MaxClock == 1
MaxHistoryRecords == 6
MaxFragments == 4
MaxFaultRecords == 2
MaxHistoryClock == 3
MaxTied == 2
MaxTokenRecords == 1

(***************************************************************************)
(* Text helpers: Python's str.startswith, s[k:], s[a:b], find and rfind.   *)
(***************************************************************************)
startswith(s, p) == Len(s) >= Len(p) /\ SubSeq(s, 1, Len(p)) = p

\* s[k:]
SliceFrom(s, k) == SubSeq(s, k + 1, Len(s))

\* s[a:b] for 0 <= a, 0 <= b
Slice(s, a, b) == SubSeq(s, a + 1, IF b > Len(s) THEN Len(s) ELSE b)

\* s.find(c): the 0-based index of the first c, or -1
find(s, c) ==
    IF \E i \in 1..Len(s) : s[i] = c
    THEN (CHOOSE i \in 1..Len(s) : s[i] = c /\ \A j \in 1..(i - 1) : s[j] # c) - 1
    ELSE -1

\* s.rfind(c): the 0-based index of the last c, or -1
rfind(s, c) ==
    IF \E i \in 1..Len(s) : s[i] = c
    THEN (CHOOSE i \in 1..Len(s) : s[i] = c /\ \A j \in (i + 1)..Len(s) : s[j] # c) - 1
    ELSE -1

Digits == <<"0", "1", "2", "3", "4", "5", "6", "7", "8", "9">>

IsDigit(c) == \E d \in 1..10 : Digits[d] = c

DigitValue(c) == (CHOOSE d \in 1..10 : Digits[d] = c) - 1

RECURSIVE NatToText(_)
NatToText(n) ==
    IF n < 10 THEN <<Digits[n + 1]>>
    ELSE NatToText(n \div 10) \o <<Digits[(n % 10) + 1]>>

\* str(n) of a Python int
IntToText(n) == IF n < 0 THEN <<"-">> \o NatToText(-n) ELSE NatToText(n)

(***************************************************************************)
(* JSON values as Python holds them after json.loads: None, bool, int,     *)
(* str and dict.  A dict is a function from its keys (texts) to values.    *)
(***************************************************************************)
JNull == [t |-> "null", s |-> <<>>, n |-> 0]
JBool(b) == [t |-> "bool", s |-> <<>>, n |-> IF b THEN 1 ELSE 0]
JNum(n) == [t |-> "num", s |-> <<>>, n |-> n]
JStr(s) == [t |-> "str", s |-> s, n |-> 0]
JObj(d) == [t |-> "obj", s |-> <<>>, n |-> 0, o |-> d]

EmptyDict == <<>>

\* d[k] = v
DictPut(d, k, v) == [x \in (DOMAIN d) \cup {k} |-> IF x = k THEN v ELSE d[x]]

\* d.get(k, default)
DictGet(d, k, default) == IF k \in DOMAIN d THEN d[k] ELSE default

\* Python truthiness of a value, as `if x:` tests it
Truthy(v) ==
    CASE v.t = "null" -> FALSE
      [] v.t = "bool" -> v.n = 1
      [] v.t = "num" -> v.n # 0
      [] v.t = "str" -> v.s # <<>>
      [] v.t = "obj" -> DOMAIN v.o # {}

\* str(v), as an f-string renders the value
PyStr(v) ==
    CASE v.t = "null" -> <<"N", "o", "n", "e">>
      [] v.t = "bool" -> IF v.n = 1 THEN <<"T", "r", "u", "e">>
                         ELSE <<"F", "a", "l", "s", "e">>
      [] v.t = "num" -> IntToText(v.n)
      [] v.t = "str" -> v.s
      [] v.t = "obj" -> <<"{", "}">>

(***************************************************************************)
(* json.dumps with the defaults the code uses: ensure_ascii=True and the   *)
(* separators ", " and ": ".                                               *)
(***************************************************************************)
EscapeChar(c) ==
    CASE c = "\"" -> <<"\\", "\"">>
      [] c = "\\" -> <<"\\", "\\">>
      [] c = "\n" -> <<"\\", "n">>
      [] c = "\t" -> <<"\\", "t">>
      [] c = "\r" -> <<"\\", "r">>
      [] c = "U0008" -> <<"\\", "b">>
      [] c = "U000C" -> <<"\\", "f">>
      [] c = "U0E1C" -> <<"\\", "u", "0", "e", "1", "c">>
      [] OTHER -> <<c>>

RECURSIVE EscapeText(_)
EscapeText(s) ==
    IF s = <<>> THEN <<>> ELSE EscapeChar(Head(s)) \o EscapeText(Tail(s))

DumpsString(s) == <<"\"">> \o EscapeText(s) \o <<"\"">>

DumpsScalar(v) ==
    CASE v.t = "null" -> <<"n", "u", "l", "l">>
      [] v.t = "bool" -> IF v.n = 1 THEN <<"t", "r", "u", "e">>
                         ELSE <<"f", "a", "l", "s", "e">>
      [] v.t = "num" -> IntToText(v.n)
      [] v.t = "str" -> DumpsString(v.s)
      [] v.t = "obj" -> <<"{", "}">>

\* json.dumps of a dict whose keys, in insertion order, are keys
RECURSIVE DumpsMembers(_, _)
DumpsMembers(keys, d) ==
    IF keys = <<>> THEN <<>>
    ELSE DumpsString(Head(keys)) \o <<":", " ">> \o DumpsScalar(d[Head(keys)])
         \o (IF Len(keys) > 1 THEN <<",", " ">> ELSE <<>>)
         \o DumpsMembers(Tail(keys), d)

dumps(keys, d) == <<"{">> \o DumpsMembers(keys, d) \o <<"}">>

(***************************************************************************)
(* json.loads: a recursive-descent reading of objects, strings, integers   *)
(* and the literals true, false and null.  A result is [ok, val, next]:    *)
(* next is the position after the value read; ok = FALSE is                *)
(* json.JSONDecodeError.  Arrays, fractions and exponents are not read     *)
(* (the texts of this model hold none).                                    *)
(***************************************************************************)
ParseFail == [ok |-> FALSE, val |-> JNull, next |-> 0]

ParseOk(v, i) == [ok |-> TRUE, val |-> v, next |-> i]

IsWhitespace(c) == c \in {" ", "\n", "\t", "\r"}

RECURSIVE SkipWhitespace(_, _)
SkipWhitespace(s, i) ==
    IF i <= Len(s) /\ IsWhitespace(s[i]) THEN SkipWhitespace(s, i + 1) ELSE i

\* the body of a string: i is the next character to read, acc the text so far
RECURSIVE ScanString(_, _, _)
ScanString(s, i, acc) ==
    IF i > Len(s) THEN ParseFail
    ELSE IF s[i] = "\"" THEN ParseOk(JStr(acc), i + 1)
    ELSE IF s[i] = "\\" THEN
        IF i + 1 > Len(s) THEN ParseFail
        ELSE IF s[i + 1] \in {"\"", "\\", "/"}
            THEN ScanString(s, i + 2, Append(acc, s[i + 1]))
        ELSE IF s[i + 1] = "n" THEN ScanString(s, i + 2, Append(acc, "\n"))
        ELSE IF s[i + 1] = "t" THEN ScanString(s, i + 2, Append(acc, "\t"))
        ELSE IF s[i + 1] = "r" THEN ScanString(s, i + 2, Append(acc, "\r"))
        ELSE IF s[i + 1] = "b" THEN ScanString(s, i + 2, Append(acc, "U0008"))
        ELSE IF s[i + 1] = "f" THEN ScanString(s, i + 2, Append(acc, "U000C"))
        ELSE IF s[i + 1] = "u" /\ i + 5 <= Len(s)
                /\ SubSeq(s, i + 2, i + 5) = <<"0", "e", "1", "c">>
            THEN ScanString(s, i + 6, Append(acc, "U0E1C"))
        ELSE ParseFail
    ELSE IF s[i] \in {"\n", "\t", "\r"} THEN ParseFail
    ELSE ScanString(s, i + 1, Append(acc, s[i]))

RECURSIVE ScanDigits(_, _, _)
ScanDigits(s, i, acc) ==
    IF i <= Len(s) /\ IsDigit(s[i])
    THEN ScanDigits(s, i + 1, 10 * acc + DigitValue(s[i]))
    ELSE [val |-> acc, next |-> i]

\* -?(0|[1-9][0-9]*), at s[i]
ScanNumber(s, i) ==
    LET neg == s[i] = "-"
        j == IF neg THEN i + 1 ELSE i
    IN  IF j > Len(s) \/ ~IsDigit(s[j]) THEN ParseFail
        ELSE IF s[j] = "0" THEN ParseOk(JNum(0), j + 1)
        ELSE LET r == ScanDigits(s, j, 0)
             IN  ParseOk(JNum(IF neg THEN -r.val ELSE r.val), r.next)

RECURSIVE ParseValue(_, _)
RECURSIVE ParseMembers(_, _, _)

\* the members of an object: j is where a key's opening quote must be
ParseMembers(s, j, d) ==
    IF j > Len(s) \/ s[j] # "\"" THEN ParseFail
    ELSE LET k == ScanString(s, j + 1, <<>>)
         IN  IF ~k.ok THEN ParseFail
             ELSE LET c == SkipWhitespace(s, k.next)
                  IN  IF c > Len(s) \/ s[c] # ":" THEN ParseFail
                      ELSE LET v == ParseValue(s, SkipWhitespace(s, c + 1))
                           IN  IF ~v.ok THEN ParseFail
                               ELSE LET d2 == DictPut(d, k.val.s, v.val)
                                        e == SkipWhitespace(s, v.next)
                                    IN  IF e > Len(s) THEN ParseFail
                                        ELSE IF s[e] = "}" THEN ParseOk(JObj(d2), e + 1)
                                        ELSE IF s[e] = ","
                                            THEN ParseMembers(s, SkipWhitespace(s, e + 1), d2)
                                        ELSE ParseFail

ParseObject(s, i) ==
    LET j == SkipWhitespace(s, i + 1)
    IN  IF j <= Len(s) /\ s[j] = "}" THEN ParseOk(JObj(EmptyDict), j + 1)
        ELSE ParseMembers(s, j, EmptyDict)

ParseValue(s, i) ==
    IF i > Len(s) THEN ParseFail
    ELSE IF s[i] = "{" THEN ParseObject(s, i)
    ELSE IF s[i] = "\"" THEN ScanString(s, i + 1, <<>>)
    ELSE IF s[i] = "-" \/ IsDigit(s[i]) THEN ScanNumber(s, i)
    ELSE IF startswith(SliceFrom(s, i - 1), <<"t", "r", "u", "e">>)
        THEN ParseOk(JBool(TRUE), i + 4)
    ELSE IF startswith(SliceFrom(s, i - 1), <<"f", "a", "l", "s", "e">>)
        THEN ParseOk(JBool(FALSE), i + 5)
    ELSE IF startswith(SliceFrom(s, i - 1), <<"n", "u", "l", "l">>)
        THEN ParseOk(JNull, i + 4)
    ELSE ParseFail

\* json.loads(s): the whole text is one value between optional whitespace
loads(s) ==
    LET v == ParseValue(s, SkipWhitespace(s, 1))
    IN  IF v.ok /\ SkipWhitespace(s, v.next) > Len(s) THEN v ELSE ParseFail

(***************************************************************************)
(* Dictionary keys, the fixed prefixes of postback data, and the fixed     *)
(* user-facing texts (one symbol each).                                    *)
(***************************************************************************)
K_is_food == <<"i", "s", "_", "f", "o", "o", "d">>
K_name == <<"n", "a", "m", "e">>
K_protein == <<"p", "r", "o", "t", "e", "i", "n">>
K_carbohydrate == <<"c", "a", "r", "b", "o", "h", "y", "d", "r", "a", "t", "e">>
K_fat == <<"f", "a", "t">>
K_sodium == <<"s", "o", "d", "i", "u", "m">>
K_calories == <<"c", "a", "l", "o", "r", "i", "e", "s">>
K_materials == <<"m", "a", "t", "e", "r", "i", "a", "l", "s">>
K_details == <<"d", "e", "t", "a", "i", "l", "s">>
K_category == <<"c", "a", "t", "e", "g", "o", "r", "y">>
K_subcategory == <<"s", "u", "b", "c", "a", "t", "e", "g", "o", "r", "y">>
K_message == <<"m", "e", "s", "s", "a", "g", "e">>
K_emoji == <<"e", "m", "o", "j", "i">>
K_n == <<"n">>
K_p == <<"p">>
K_c == <<"c">>
K_f == <<"f">>
K_s == <<"s">>
K_k == <<"k">>

EatPrefix == <<"e", "a", "t", "_">>
LocationPrefix == <<"l", "o", "c", "a", "t", "i", "o", "n", "_">>

\* A fixed Thai text of the source is written as one symbol that says what
\* the text says, as in <<"TEXT_MEAL_SAVED">>.
NotAvailable == <<"N", "/", "A">>
Pin == <<"U1F4CD", " ">>

\* the command texts handle_text_message compares with
CommandNotEat == <<"CMD_NOT_EAT">>
CommandSaveMeal == <<"CMD_SAVE_MEAL">>
CommandHistory == <<"CMD_EATING_HISTORY">>
CommandHelp == <<"CMD_HOW_TO_USE">>

\* the dict built from a sequence of <<key, value>> pairs
RECURSIVE MakeDict(_)
MakeDict(pairs) ==
    IF pairs = <<>> THEN EmptyDict
    ELSE DictPut(MakeDict(SubSeq(pairs, 1, Len(pairs) - 1)),
                 pairs[Len(pairs)][1], pairs[Len(pairs)][2])

(***************************************************************************)
(* classify_with_openai: api is the completion API's answer, [status,      *)
(* content]; status 0 stands for requests.post itself raising, and the     *)
(* content of an answer whose status is not 200 is its body.  The result   *)
(* is [raised, data, error]: error is str(e) of the exception raised.      *)
(***************************************************************************)
\* str(e) of HTTPException(status_code=..., detail=...)
HTTPExceptionText(status_code, detail) ==
    IntToText(status_code) \o <<":", " ">> \o detail

\* the exception classify_with_openai leaves with
ClassifierError(api) ==
    IF api.status = 0 THEN <<"ERR_CONNECTION">>
    ELSE HTTPExceptionText(api.status,
                           <<"E", "r", "r", "o", "r", " ", "f", "r", "o", "m", " ",
                             "O", "p", "e", "n", "A", "I", " ", "A", "P", "I", ":",
                             " ">> \o api.content)

FallbackResult ==
    MakeDict(<< <<K_is_food, JBool(FALSE)>>,
                <<K_category, JStr(<<"o", "t", "h", "e", "r">>)>>,
                <<K_subcategory, JStr(<<"u", "n", "k", "n", "o", "w", "n">>)>>,
                <<K_message, JStr(<<"TEXT_SORRY_CANNOT_ANALYZE_IMAGE_POLITE">>)>>,
                <<K_emoji, JStr(<<"U2753">>)>> >>)

\* what json.loads made of the text between the braces
Decoded(response_data) ==
    IF response_data.ok
    THEN [raised |-> FALSE, data |-> response_data.val.o, error |-> <<>>]
    ELSE [raised |-> FALSE, data |-> FallbackResult, error |-> <<>>]

Extracted(content, start_idx, end_idx) ==
    IF start_idx # -1 /\ end_idx > start_idx
    THEN Decoded(loads(Slice(content, start_idx, end_idx)))
    ELSE [raised |-> FALSE, data |-> FallbackResult, error |-> <<>>]

\* a classifier reading that ends the JSON at the first closing brace
classify_to_first_brace(api) ==
    IF api.status # 200
    THEN [raised |-> TRUE, data |-> EmptyDict, error |-> ClassifierError(api)]
    ELSE Extracted(api.content, find(api.content, "{"), find(api.content, "}") + 1)

classify_with_openai(api) ==
    IF api.status # 200
    THEN [raised |-> TRUE, data |-> EmptyDict, error |-> ClassifierError(api)]
    ELSE Extracted(api.content, find(api.content, "{"), rfind(api.content, "}") + 1)

(***************************************************************************)
(* The cards.                                                              *)
(***************************************************************************)
category_colors ==
    MakeDict(<< <<<<"f", "a", "c", "e">>, "#FF6B6B">>,
                <<<<"a", "n", "i", "m", "a", "l">>, "#4ECDC4">>,
                <<<<"l", "a", "n", "d", "s", "c", "a", "p", "e">>, "#45B7D1">>,
                <<<<"o", "b", "j", "e", "c", "t">>, "#96CEB4">>,
                <<<<"o", "t", "h", "e", "r">>, "#FFD93D">> >>)

category_icons ==
    MakeDict(<< <<<<"f", "a", "c", "e">>, <<"U1F464">>>>,
                <<<<"a", "n", "i", "m", "a", "l">>, <<"U1F43E">>>>,
                <<<<"l", "a", "n", "d", "s", "c", "a", "p", "e">>, <<"U1F305">>>>,
                <<<<"o", "b", "j", "e", "c", "t">>, <<"U1F50D">>>>,
                <<<<"o", "t", "h", "e", "r">>, <<"U2728">>>> >>)

create_non_food_flex_message(response_data) ==
    LET category == DictGet(response_data, K_category, JStr(<<"o", "t", "h", "e", "r">>))
        color == DictGet(category_colors, category.s, "#FFD93D")
        emoji == DictGet(response_data, K_emoji,
                         JStr(DictGet(category_icons, category.s, <<"U2728">>)))
    IN  [type |-> "flex", card |-> "non_food",
         header |-> PyStr(emoji) \o <<" ", "TEXT_IMAGE_ANALYSIS">>,
         subcategory |-> <<"TEXT_KIND", " ">>
                         \o PyStr(DictGet(response_data, K_subcategory,
                                          JStr(<<"TEXT_UNSPECIFIED">>))),
         color |-> color,
         message |-> DictGet(response_data, K_message, JStr(<<"TEXT_SORRY_CANNOT_ANALYZE_IMAGE_POLITE">>))]

\* a row that shows 0 for a value that is missing
NutritionRowZero(food_info, label, key, unit) ==
    [label |-> label,
     text |-> PyStr(DictGet(food_info, key, JNum(0))) \o <<" ">> \o unit]

NutritionRow(food_info, label, key, unit) ==
    [label |-> label,
     text |-> PyStr(DictGet(food_info, key, JStr(NotAvailable))) \o <<" ">> \o unit]

TokenKeys == <<K_n, K_p, K_c, K_f, K_s, K_k>>

\* a token whose protein and carbohydrate values change places
minimal_food_info_swapped(food_info) ==
    MakeDict(<< <<K_n, DictGet(food_info, K_name, JStr(<<>>))>>,
                <<K_p, DictGet(food_info, K_carbohydrate, JNum(0))>>,
                <<K_c, DictGet(food_info, K_protein, JNum(0))>>,
                <<K_f, DictGet(food_info, K_fat, JNum(0))>>,
                <<K_s, DictGet(food_info, K_sodium, JNum(0))>>,
                <<K_k, DictGet(food_info, K_calories, JNum(0))>> >>)

minimal_food_info(food_info) ==
    MakeDict(<< <<K_n, DictGet(food_info, K_name, JStr(<<>>))>>,
                <<K_p, DictGet(food_info, K_protein, JNum(0))>>,
                <<K_c, DictGet(food_info, K_carbohydrate, JNum(0))>>,
                <<K_f, DictGet(food_info, K_fat, JNum(0))>>,
                <<K_s, DictGet(food_info, K_sodium, JNum(0))>>,
                <<K_k, DictGet(food_info, K_calories, JNum(0))>> >>)

create_flex_nutrition_message(food_info) ==
    [type |-> "flex", card |-> "food",
         title |-> DictGet(food_info, K_name, JStr(<<"TEXT_CANNOT_NAME_FOOD">>)),
         rows |-> << NutritionRow(food_info, <<"LABEL_CALORIES">>, K_calories, <<"UNIT_KILOCALORIES">>),
                     NutritionRow(food_info, <<"LABEL_PROTEIN">>, K_protein, <<"UNIT_GRAMS">>),
                     NutritionRow(food_info, <<"LABEL_FAT">>, K_fat, <<"UNIT_GRAMS">>),
                     NutritionRow(food_info, <<"LABEL_CARBOHYDRATE">>, K_carbohydrate, <<"UNIT_GRAMS">>),
                     NutritionRow(food_info, <<"LABEL_SODIUM">>, K_sodium, <<"UNIT_MILLIGRAMS">>) >>,
         materials |-> PyStr(DictGet(food_info, K_materials, JStr(<<"TEXT_MATERIALS_IN_DEVELOPMENT">>))),
         details |-> PyStr(DictGet(food_info, K_details, JStr(<<"TEXT_ADVICE_IN_DEVELOPMENT">>))),
         action |-> [type |-> "postback",
                     data |-> EatPrefix \o dumps(TokenKeys, minimal_food_info(food_info))]]

TextSendMessage(text) == [type |-> "text", text |-> text]


(***************************************************************************)
(* The meal_records table: the committed rows in insertion order.  The     *)
(* queries order by created_at alone, so rows with equal created_at may    *)
(* come back in any order.                                                 *)
(***************************************************************************)
HistoryLimit == 5

RowsOf(rows, user_id) == {i \in 1..Len(rows) : rows[i].user_id = user_id}

\* the rows of S no row of S is newer than
Newest(rows, S) ==
    {i \in S : \A j \in S : rows[j].created_at <= rows[i].created_at}

\* the query without its filter on user_id
FirstOfAnyUser(rows, user_id) ==
    IF rows = <<>> THEN {0} ELSE Newest(rows, 1..Len(rows))

\* filter(user_id).order_by(created_at.desc()).first(): every row the query
\* may return; 0 stands for None
FirstResults(rows, user_id) ==
    IF RowsOf(rows, user_id) = {} THEN {0} ELSE Newest(rows, RowsOf(rows, user_id))

\* order_by(created_at.desc()).limit(k).all() over the rows S: every
\* sequence of row positions the query may return
RECURSIVE OrderedResults(_, _, _)
OrderedResults(rows, S, k) ==
    IF k = 0 \/ S = {} THEN {<<>>}
    ELSE UNION {{<<i>> \o rest : rest \in OrderedResults(rows, S \ {i}, k - 1)} :
                i \in Newest(rows, S)}

HistoryResults(rows, user_id) ==
    OrderedResults(rows, RowsOf(rows, user_id), HistoryLimit)

\* the value of created_at's default, datetime.utcnow, at an insert: not
\* before the previous insert's, and not necessarily after it
LastCreated(rows) == IF rows = <<>> THEN 0 ELSE rows[Len(rows)].created_at

(***************************************************************************)
(* LINE send calls.  sends lists the calls of the turn in order, each with *)
(* ok = FALSE when the call raised; line[k] tells whether the turn's k-th  *)
(* call succeeds.                                                          *)
(***************************************************************************)
ReplyToken == "event.reply_token"

\* reply_message(event.reply_token, message)
Sent(sends, api, message, line) ==
    Append(sends, [api |-> api, to |-> ReplyToken, message |-> message,
                   ok |-> line[Len(sends) + 1]])

\* push_message(to, message)
Pushed(sends, to, message, line) ==
    Append(sends, [api |-> "push", to |-> to, message |-> message,
                   ok |-> line[Len(sends) + 1]])

LastOk(sends) == sends # <<>> /\ sends[Len(sends)].ok

\* what a handler leaves behind
Outcome(rows, sends, escaped, api_calls, classified) ==
    [db |-> rows, sends |-> sends, escaped |-> escaped, api_calls |-> api_calls,
     classified |-> classified]

NotClassified == [raised |-> FALSE, data |-> EmptyDict, error |-> <<>>]

(***************************************************************************)
(* handle_image_message.  message is [fetched, api]: fetched = FALSE is    *)
(* get_message_content raising.                                            *)
(***************************************************************************)
\* a handler that sends the food card whenever the classification has an
\* is_food key, whatever its value
reply_to_keyed_classification(rows, response_data, api_calls, line) ==
    LET flex_message ==
            IF K_is_food \in DOMAIN response_data.data
            THEN create_flex_nutrition_message(response_data.data)
            ELSE create_non_food_flex_message(response_data.data)
        replied ==
            IF response_data.raised THEN <<>>
            ELSE Sent(<<>>, "reply", flex_message, line)
    IN  Outcome(rows, replied, ~LastOk(replied), api_calls, response_data)

\* steps 4 and 5 of the handler and its except branch: response_data is
\* what classify_with_openai gave, [raised, data, error]
reply_to_classification(rows, response_data, api_calls, line) ==
    LET flex_message ==
            IF Truthy(DictGet(response_data.data, K_is_food, JBool(FALSE)))
            THEN create_flex_nutrition_message(response_data.data)
            ELSE create_non_food_flex_message(response_data.data)
        replied ==
            IF response_data.raised THEN <<>>
            ELSE Sent(<<>>, "reply", flex_message, line)
        failed == ~LastOk(replied)
        error_message ==
            <<"TEXT_SORRY_CANNOT_ANALYZE_IMAGE", ":", " ">>
            \o (IF response_data.raised THEN response_data.error ELSE <<"ERR_LINE_API">>)
        sends ==
            IF failed THEN Sent(replied, "reply", TextSendMessage(error_message), line)
            ELSE replied
    IN  Outcome(rows, sends, failed /\ ~LastOk(sends), api_calls, response_data)

handle_image_message(rows, user_id, message, line) ==
    IF message.fetched
    THEN reply_to_classification(rows, classify_with_openai(message.api), 1, line)
    ELSE reply_to_classification(rows, [raised |-> TRUE, data |-> EmptyDict,
                                        error |-> <<"ERR_LINE_API">>], 0, line)

(***************************************************************************)
(* handle_postback.  now is the clock read by created_at's default; dbok   *)
(* = FALSE is the session raising a storage error.                         *)
(***************************************************************************)
IsIntText(t) == t # <<>> /\ \A i \in 1..Len(t) : IsDigit(t[i])

\* data.split("_")[1]
SecondField(data) ==
    LET rest == SliceFrom(data, find(data, "_") + 1)
    IN  IF find(rest, "_") = -1 THEN rest ELSE Slice(rest, 0, find(rest, "_"))

LocationPrompt(meal_id) ==
    [type |-> "text", text |-> <<"TEXT_SAVE_LOCATION_TOO">>,
     quick_reply |-> [type |-> "postback", data |-> LocationPrefix \o IntToText(meal_id)]]

\* a record that is created with the coordinates (0, 0)
NewMealRecordAtOrigin(rows, user_id, food_info, now) ==
    [id |-> Len(rows) + 1,
     user_id |-> user_id,
     food_name |-> DictGet(food_info, K_n, JStr(<<>>)),
     protein |-> DictGet(food_info, K_p, JNum(0)),
     carbohydrate |-> DictGet(food_info, K_c, JNum(0)),
     fat |-> DictGet(food_info, K_f, JNum(0)),
     sodium |-> DictGet(food_info, K_s, JNum(0)),
     calories |-> DictGet(food_info, K_k, JNum(0)),
     materials |-> JStr(<<>>),
     details |-> JStr(<<>>),
     latitude |-> JNum(0),
     longitude |-> JNum(0),
     location_name |-> JNull,
     created_at |-> now]

NewMealRecord(rows, user_id, food_info, now) ==
    [id |-> Len(rows) + 1,
     user_id |-> user_id,
     food_name |-> DictGet(food_info, K_n, JStr(<<>>)),
     protein |-> DictGet(food_info, K_p, JNum(0)),
     carbohydrate |-> DictGet(food_info, K_c, JNum(0)),
     fat |-> DictGet(food_info, K_f, JNum(0)),
     sodium |-> DictGet(food_info, K_s, JNum(0)),
     calories |-> DictGet(food_info, K_k, JNum(0)),
     materials |-> JStr(<<>>),
     details |-> JStr(<<>>),
     latitude |-> JNull,
     longitude |-> JNull,
     location_name |-> JNull,
     created_at |-> now]

\* a commit that goes through whatever the session raises
CommittedDespiteError(decoded, dbok) == decoded

\* db.add and db.commit are reached and neither raises
Committed(decoded, dbok) == decoded /\ dbok

\* the location prompt pushed first, the confirmation after it
PromptThenConfirm(user_id, meal_id, line) ==
    LET prompted == Pushed(<<>>, user_id, LocationPrompt(meal_id), line)
    IN  IF LastOk(prompted)
        THEN Sent(prompted, "reply", TextSendMessage(<<"TEXT_MEAL_SAVED">>), line)
        ELSE prompted

\* the send calls after the commit: the confirmation as the reply, then the
\* location prompt pushed to the user
ConfirmThenPrompt(user_id, meal_id, line) ==
    LET confirmed == Sent(<<>>, "reply", TextSendMessage(<<"TEXT_MEAL_SAVED">>), line)
    IN  IF LastOk(confirmed)
        THEN Pushed(confirmed, user_id, LocationPrompt(meal_id), line)
        ELSE confirmed

\* the eat_ branch; parsed is what json.loads made of the data after eat_
SaveMeal(rows, user_id, parsed, now, dbok, line) ==
    LET decoded == parsed.ok /\ parsed.val.t = "obj"
        food_info == IF decoded THEN parsed.val.o ELSE EmptyDict
        meal_record == NewMealRecord(rows, user_id, food_info, now)
        committed == Committed(decoded, dbok)
        rows2 == IF committed THEN Append(rows, meal_record) ELSE rows
        prompted ==
            IF committed THEN ConfirmThenPrompt(user_id, meal_record.id, line) ELSE <<>>
        failed == ~LastOk(prompted)
        sends ==
            IF failed
            THEN Sent(prompted, "reply", TextSendMessage(<<"TEXT_SORRY_CANNOT_SAVE">>), line)
            ELSE prompted
    IN  Outcome(rows2, sends, failed /\ ~LastOk(sends), 0, NotClassified)

\* the location_ branch; parsed tells whether int() read the meal id
AskLocation(rows, parsed, line) ==
    LET asked ==
            IF parsed
            THEN Sent(<<>>, "reply",
                      [type |-> "text", text |-> <<"TEXT_PLEASE_SEND_LOCATION">>,
                       quick_reply |-> [type |-> "location"]], line)
            ELSE <<>>
        failed == ~LastOk(asked)
        sends ==
            IF failed
            THEN Sent(asked, "reply", TextSendMessage(<<"TEXT_SORRY_CANNOT_ASK_LOCATION">>), line)
            ELSE asked
    IN  Outcome(rows, sends, failed /\ ~LastOk(sends), 0, NotClassified)

\* a confirm that is refused once the user has a record
handle_postback_once(rows, user_id, data, now, dbok, line) ==
    IF startswith(data, EatPrefix)
    THEN SaveMeal(rows, user_id, loads(SliceFrom(data, 4)), now,
                  dbok /\ RowsOf(rows, user_id) = {}, line)
    ELSE IF startswith(data, LocationPrefix)
    THEN AskLocation(rows, IsIntText(SecondField(data)), line)
    ELSE Outcome(rows, <<>>, FALSE, 0, NotClassified)

handle_postback(rows, user_id, data, now, dbok, line) ==
    IF startswith(data, EatPrefix)
    THEN SaveMeal(rows, user_id, loads(SliceFrom(data, 4)), now, dbok, line)
    ELSE IF startswith(data, LocationPrefix)
    THEN AskLocation(rows, IsIntText(SecondField(data)), line)
    ELSE Outcome(rows, <<>>, FALSE, 0, NotClassified)

(***************************************************************************)
(* handle_location_message.  picked is the row first() returned (0: None). *)
(***************************************************************************)
\* a location update that also rewrites the record's materials
UpdateLocationAndMaterials(rows, picked, message) ==
    [rows EXCEPT ![picked].latitude = JNum(message.latitude),
                 ![picked].longitude = JNum(message.longitude),
                 ![picked].location_name = message.address,
                 ![picked].materials = message.address]

\* the three assignments to meal_record
UpdateLocation(rows, picked, message) ==
    [rows EXCEPT ![picked].latitude = JNum(message.latitude),
                 ![picked].longitude = JNum(message.longitude),
                 ![picked].location_name = message.address]

handle_location_message(rows, user_id, message, picked, dbok, line) ==
    LET rows2 ==
            IF dbok /\ picked # 0 THEN UpdateLocation(rows, picked, message) ELSE rows
        replied ==
            IF dbok
            THEN Sent(<<>>, "reply",
                      TextSendMessage(IF picked # 0 THEN <<"TEXT_LOCATION_SAVED">>
                                      ELSE <<"TEXT_NO_MEAL_FOR_LOCATION">>), line)
            ELSE <<>>
        failed == ~LastOk(replied)
        sends ==
            IF failed
            THEN Sent(replied, "reply", TextSendMessage(<<"TEXT_SORRY_CANNOT_SAVE_LOCATION">>), line)
            ELSE replied
    IN  Outcome(rows2, sends, failed /\ ~LastOk(sends), 0, NotClassified)


(***************************************************************************)
(* handle_text_message and respond_as_health_expert.  The handler has no   *)
(* try block: whatever raises inside it leaves it.                         *)
(***************************************************************************)
RECURSIVE lstrip(_)
lstrip(s) == IF s # <<>> /\ IsWhitespace(Head(s)) THEN lstrip(Tail(s)) ELSE s

RECURSIVE rstrip(_)
rstrip(s) ==
    IF s # <<>> /\ IsWhitespace(s[Len(s)]) THEN rstrip(SubSeq(s, 1, Len(s) - 1)) ELSE s

strip(s) == rstrip(lstrip(s))

\* str() of a Float column's value
FloatText(v) == IF v.t = "num" THEN IntToText(v.n) \o <<".", "0">> ELSE PyStr(v)

\* f"{x:.4f}"
FourPlaces(v) == IntToText(v.n) \o <<".", "0", "0", "0", "0">>

HistoryBubble(record) ==
    [food_name |-> record.food_name,
     created_at |-> record.created_at,
     calories |-> FloatText(record.calories) \o <<" ", "TEXT_CALORIES">>,
     location_text |->
        IF Truthy(record.location_name) THEN Pin \o record.location_name.s
        ELSE IF Truthy(record.latitude) /\ Truthy(record.longitude)
            THEN Pin \o FourPlaces(record.latitude) \o <<",", " ">>
                 \o FourPlaces(record.longitude)
        ELSE <<"TEXT_PIN_NO_LOCATION">>]

HistoryCarousel(rows, listed) ==
    [type |-> "flex", card |-> "history",
     contents |-> [k \in 1..Len(listed) |-> HistoryBubble(rows[listed[k]])],
     records |-> listed]

\* [raised, text]
respond_as_health_expert(user_message, api) ==
    IF api.status = 0 THEN [raised |-> TRUE, text |-> <<>>]
    ELSE IF api.status # 200 THEN [raised |-> FALSE, text |-> <<"TEXT_SORRY_CANNOT_ADVISE_NOW">>]
    ELSE [raised |-> FALSE, text |-> api.content]

\* a reply that also forgets the record stored last
ReplyAndForget(rows, message, api_calls, line) ==
    LET sends == Sent(<<>>, "reply", message, line)
    IN  Outcome(SubSeq(rows, 1, Len(rows) - 1), sends, ~LastOk(sends), api_calls,
                NotClassified)

\* one reply and nothing else; the reply raising leaves the handler
ReplyOnce(rows, message, api_calls, line) ==
    LET sends == Sent(<<>>, "reply", message, line)
    IN  Outcome(rows, sends, ~LastOk(sends), api_calls, NotClassified)

Raised(rows, api_calls) == Outcome(rows, <<>>, TRUE, api_calls, NotClassified)

handle_text_message(rows, user_id, message, picked, listed, dbok, line) ==
    LET user_message == strip(message.text)
    IN  IF startswith(user_message, EatPrefix) THEN
            IF ~dbok THEN Raised(rows, 0)
            ELSE ReplyOnce(rows, TextSendMessage(IF picked # 0 THEN <<"TEXT_MEAL_SAVED">>
                                                 ELSE <<"TEXT_NO_FOOD_TO_SAVE">>), 0, line)
        ELSE IF user_message = CommandNotEat THEN
            ReplyOnce(rows, TextSendMessage(<<"TEXT_MEAL_NOT_SAVED">>), 0, line)
        ELSE IF user_message = CommandSaveMeal THEN
            ReplyOnce(rows, [type |-> "text", text |-> <<"TEXT_CHOOSE_IMAGE_SOURCE">>,
                             quick_reply |-> [type |-> "camera"]], 0, line)
        ELSE IF user_message = CommandHistory THEN
            IF ~dbok THEN Raised(rows, 0)
            ELSE IF listed # <<>> THEN ReplyOnce(rows, HistoryCarousel(rows, listed), 0, line)
            ELSE ReplyOnce(rows, TextSendMessage(<<"TEXT_NO_HISTORY_YET">>), 0, line)
        ELSE IF user_message = CommandHelp THEN
            ReplyOnce(rows, TextSendMessage(<<"TEXT_HOW_TO_USE">>), 0, line)
        ELSE
            LET expert_res == respond_as_health_expert(user_message, message.api)
            IN  IF expert_res.raised THEN Raised(rows, 1)
                ELSE ReplyOnce(rows, TextSendMessage(expert_res.text), 1, line)

(***************************************************************************)
(* The /webhook endpoint.  handler.handle checks the signature and then    *)
(* calls the handler registered for the event's type; an exception that    *)
(* leaves a handler leaves webhook too, and the framework answers 500.     *)
(***************************************************************************)
Untouched(rows) == Outcome(rows, <<>>, FALSE, 0, NotClassified)

Dispatch(rows, event, env) ==
    CASE event.type = "text" ->
            handle_text_message(rows, event.user, event.message, env.picked,
                                env.listed, env.dbok, env.line)
      [] event.type = "image" ->
            handle_image_message(rows, event.user, event.message, env.line)
      [] event.type = "postback" ->
            handle_postback(rows, event.user, event.data, env.now, env.dbok, env.line)
      [] event.type = "location" ->
            handle_location_message(rows, event.user, event.message, env.picked,
                                    env.dbok, env.line)

\* the answer to a request whose event was handled
Handled(out) ==
    [status |-> IF out.escaped THEN 500 ELSE 200, handled |-> TRUE, out |-> out]

\* a webhook that hands the event to its handler whatever the signature
webhook_unchecked(rows, event, signature_valid, env) ==
    Handled(Dispatch(rows, event, env))

webhook(rows, event, signature_valid, env) ==
    IF ~signature_valid
    THEN [status |-> 400, handled |-> FALSE, out |-> Untouched(rows)]
    ELSE Handled(Dispatch(rows, event, env))

(***************************************************************************)
(* The /classify and /debug endpoints.  None of them opens a session.      *)
(***************************************************************************)
\* a /classify that stores what it classified
classify_image_recording(rows, api) ==
    [status |-> 200, handled |-> FALSE,
     out |-> Outcome(Append(rows, NewMealRecord(rows, "U1", EmptyDict, LastCreated(rows))),
                     <<>>, FALSE, 1, classify_with_openai(api))]

\* api is the completion API's answer for the uploaded file
classify_image(rows, api) ==
    [status |-> IF classify_with_openai(api).raised THEN 500 ELSE 200,
     handled |-> FALSE,
     out |-> Outcome(rows, <<>>, classify_with_openai(api).raised, 1,
                     classify_with_openai(api))]

\* response_text of the debug endpoints
NutritionText(nutrition_data) ==
    <<"TEXT_THIS_FOOD_IS", " ">> \o PyStr(nutrition_data[K_name])
    \o <<"\n", "TEXT_ESTIMATED_NUTRITION", "\n", "LABEL_PROTEIN", ":", " ">>
    \o PyStr(nutrition_data[K_protein])
    \o <<" ", "UNIT_GRAMS", "\n", "LABEL_CARBOHYDRATE", ":", " ">>
    \o PyStr(nutrition_data[K_carbohydrate])
    \o <<" ", "UNIT_GRAMS", "\n", "LABEL_FAT", ":", " ">>
    \o PyStr(nutrition_data[K_fat])
    \o <<" ", "UNIT_GRAMS", "\n", "LABEL_SODIUM", ":", " ">>
    \o PyStr(nutrition_data[K_sodium])
    \o <<" ", "UNIT_MILLIGRAMS", "\n", "LABEL_CALORIES", ":", " ">>
    \o PyStr(nutrition_data[K_calories])
    \o <<" ", "UNIT_KILOCALORIES">>

\* the push of a debug endpoint and its answer: 200, or 500 when the push
\* raised
PushNutrition(rows, user_id, nutrition_data, line) ==
    [status |-> IF line[1] THEN 200 ELSE 500, handled |-> FALSE,
     out |-> Outcome(rows,
                     Pushed(<<>>, user_id, TextSendMessage(NutritionText(nutrition_data)), line),
                     ~line[1], 0, NotClassified)]

\* form holds food_name and the five optional floats (None: JNull)
debug_send_nutrition(rows, user_id, form, line) ==
    PushNutrition(rows, user_id,
                  [k \in DOMAIN form |->
                      IF k = K_name THEN form[k]
                      ELSE IF form[k] = JNull THEN JStr(NotAvailable)
                      ELSE JStr(IntToText(form[k].n) \o <<".", "0">>)],
                  line)

K_user_id == <<"u", "s", "e", "r", "_", "i", "d">>
K_food_name == <<"f", "o", "o", "d", "_", "n", "a", "m", "e">>

\* data is the request's JSON body
debug_send_nutrition_json(rows, data, line) ==
    IF ~Truthy(DictGet(data, K_user_id, JNull))
    THEN [status |-> 400, handled |-> FALSE, out |-> Untouched(rows)]
    ELSE PushNutrition(rows, PyStr(data[K_user_id]),
                       [k \in {K_name, K_protein, K_carbohydrate, K_fat, K_sodium,
                               K_calories} |->
                           IF k = K_name
                           THEN DictGet(data, K_food_name, JStr(<<"TEXT_FOOD_NAME_UNSPECIFIED">>))
                           ELSE DictGet(data, k, JStr(NotAvailable))],
                       line)

(***************************************************************************)
(* The state: the table, the confirm action of the food card each user     *)
(* was last sent, and what the last webhook request did.                   *)
(***************************************************************************)
VARIABLES db, card, turn

vars == <<db, card, turn>>

Users == {"U1", "U2"}

NoCard == [data |-> <<>>, food_info |-> EmptyDict]

NoEnv == [now |-> 0, dbok |-> TRUE, line |-> <<TRUE, TRUE, TRUE>>, picked |-> 0,
          listed |-> <<>>]

NoTurn ==
    [event |-> [type |-> "none", user |-> "none"], signature_valid |-> TRUE,
     env |-> NoEnv, rows_before |-> 0, status |-> 0, handled |-> FALSE,
     sends |-> <<>>, escaped |-> FALSE, api_calls |-> 0, classified |-> NotClassified]

Init ==
    /\ db = <<>>
    /\ card = [u \in Users |-> NoCard]
    /\ turn = NoTurn

\* the food cards among the sends that reached the user
FoodCardsSent(sends) ==
    {k \in 1..Len(sends) : sends[k].ok /\ sends[k].message.type = "flex"
                           /\ sends[k].message.card = "food"}

\* the card a user holds after a request that left out
CardAfter(cards, event, out) ==
    IF FoodCardsSent(out.sends) = {} THEN cards
    ELSE [cards EXCEPT ![event.user] =
             [data |-> out.sends[1].message.action.data,
              food_info |-> out.classified.data]]

\* what a request did: r is what webhook returned for it
TurnAfter(rows, event, signature_valid, env, r) ==
    [event |-> event, signature_valid |-> signature_valid, env |-> env,
     rows_before |-> Len(rows), status |-> r.status, handled |-> r.handled,
     sends |-> r.out.sends, escaped |-> r.out.escaped,
     api_calls |-> r.out.api_calls, classified |-> r.out.classified]

\* whether the handler of the event reaches the session's query or commit
StorageAsked(event) ==
    CASE event.type = "text" ->
            \/ startswith(strip(event.message.text), EatPrefix)
            \/ strip(event.message.text) = CommandHistory
      [] event.type = "image" -> FALSE
      [] event.type = "postback" ->
            /\ startswith(event.data, EatPrefix)
            /\ loads(SliceFrom(event.data, 4)).ok
            /\ loads(SliceFrom(event.data, 4)).val.t = "obj"
      [] event.type = "location" -> TRUE
      [] OTHER -> FALSE

\* An answer of the environment that the request never asked for (a send
\* call it did not make, a storage error or a clock value it did not meet)
\* is left at its default, so that one run of the code is one step.
Asked(event, env, r) ==
    /\ \A k \in 1..3 : k > Len(r.out.sends) => env.line[k]
    /\ env.dbok \/ (r.handled /\ StorageAsked(event))
    /\ env.now = LastCreated(db) \/ Len(r.out.db) > Len(db)

Commit(event, signature_valid, env, r, max_rows) ==
    /\ Asked(event, env, r)
    /\ Len(r.out.db) <= max_rows
    /\ db' = r.out.db
    /\ card' = CardAfter(card, event, r.out)
    /\ turn' = TurnAfter(db, event, signature_valid, env, r)

\* one request to /webhook carrying one event
Deliver(event, signature_valid, env, max_rows) ==
    Commit(event, signature_valid, env, webhook(db, event, signature_valid, env),
           max_rows)


(***************************************************************************)
(* The events and the environment's answers the specifications draw from.  *)
(***************************************************************************)
\* ok {"is_food": true, "name": "Pad Thai", "protein": 24, "carbohydrate": 30,
\*     "fat": 20, "sodium": 10, "calories": 550, "materials": "noodles",
\*     "details": "eat"}
CompletionPadThai ==
    <<"o", "k", " ", "{", "\"", "i", "s", "_", "f", "o", "o", "d", "\"", ":",
      " ", "t", "r", "u", "e", ",", " ", "\"", "n", "a", "m", "e", "\"", ":",
      " ", "\"", "P", "a", "d", " ", "T", "h", "a", "i", "\"", ",", " ",
      "\"", "p", "r", "o", "t", "e", "i", "n", "\"", ":", " ", "2", "4", ",",
      " ", "\"", "c", "a", "r", "b", "o", "h", "y", "d", "r", "a", "t", "e",
      "\"", ":", " ", "3", "0", ",", " ", "\"", "f", "a", "t", "\"", ":",
      " ", "2", "0", ",", " ", "\"", "s", "o", "d", "i", "u", "m", "\"", ":",
      " ", "1", "0", ",", " ", "\"", "c", "a", "l", "o", "r", "i", "e", "s",
      "\"", ":", " ", "5", "5", "0", ",", " ", "\"", "m", "a", "t", "e", "r",
      "i", "a", "l", "s", "\"", ":", " ", "\"", "n", "o", "o", "d", "l", "e",
      "s", "\"", ",", " ", "\"", "d", "e", "t", "a", "i", "l", "s", "\"",
      ":", " ", "\"", "e", "a", "t", "\"", "}">>

\* {"is_food": true, "name": "<U+0E1C>\"d", "fat": 5}
CompletionPartial ==
    <<"{", "\"", "i", "s", "_", "f", "o", "o", "d", "\"", ":", " ", "t", "r",
      "u", "e", ",", " ", "\"", "n", "a", "m", "e", "\"", ":", " ", "\"",
      "U0E1C", "\\", "\"", "d", "\"", ",", " ", "\"", "f", "a", "t", "\"",
      ":", " ", "5", "}">>

\* {"is_food": false, "category": "animal", "subcategory": "cat",
\*  "message": "meow", "emoji": ":)"}
CompletionCat ==
    <<"{", "\"", "i", "s", "_", "f", "o", "o", "d", "\"", ":", " ", "f", "a",
      "l", "s", "e", ",", " ", "\"", "c", "a", "t", "e", "g", "o", "r", "y",
      "\"", ":", " ", "\"", "a", "n", "i", "m", "a", "l", "\"", ",", " ",
      "\"", "s", "u", "b", "c", "a", "t", "e", "g", "o", "r", "y", "\"", ":",
      " ", "\"", "c", "a", "t", "\"", ",", " ", "\"", "m", "e", "s", "s",
      "a", "g", "e", "\"", ":", " ", "\"", "m", "e", "o", "w", "\"", ",",
      " ", "\"", "e", "m", "o", "j", "i", "\"", ":", " ", "\"", ":", ")",
      "\"", "}">>

\* no food
CompletionProse == <<"n", "o", " ", "f", "o", "o", "d">>

ApiOk(content) == [status |-> 200, content |-> content]
\* an answer of status 500 whose body says quota
ApiError == [status |-> 500, content |-> <<"q", "u", "o", "t", "a">>]
ApiUnreachable == [status |-> 0, content |-> <<>>]

AllOk == <<TRUE, TRUE, TRUE>>

\* which of a turn's LINE send calls raise
LineOutcomes ==
    {AllOk, <<FALSE, TRUE, TRUE>>, <<FALSE, FALSE, TRUE>>, <<TRUE, FALSE, TRUE>>,
     <<TRUE, FALSE, FALSE>>}

Home == [latitude |-> 13, longitude |-> 100,
         address |-> JStr(<<"H", "o", "m", "e">>)]
Equator == [latitude |-> 0, longitude |-> 101, address |-> JNull]
Roadside == [latitude |-> 14, longitude |-> 99, address |-> JNull]

\* a text event's message; api is the advice API's answer, read only when
\* the text is no command
Command(text) == [text |-> text, api |-> ApiUnreachable]

FreeText(api) == [text |-> <<" ", "h", "i">>, api |-> api]

Image(api) == [fetched |-> TRUE, api |-> api]

ImageGone == [fetched |-> FALSE, api |-> ApiUnreachable]

\* the inputs of the specification Spec: every kind of request of two
\* users, storage errors, no failing send
MainInputs ==
    [users |-> Users,
     texts |-> {Command(EatPrefix \o <<"x">>), Command(CommandHistory),
                FreeText(ApiOk(CompletionProse))},
     images |-> {Image(ApiOk(CompletionPadThai)), Image(ApiOk(CompletionProse))},
     tampered |-> {EatPrefix \o <<"5">>, LocationPrefix \o <<"1">>},
     locations |-> {Home},
     dboks |-> BOOLEAN,
     lines |-> {AllOk},
     max_rows |-> MaxRecords,
     max_clock |-> MaxClock,
     max_tied |-> MaxRecords]

\* the inputs of the specification SpecFaults: one user, every command and
\* every failure of the APIs, of the storage and of the send calls
FaultInputs ==
    [users |-> {"U1"},
     texts |-> {Command(EatPrefix \o <<"x">>), Command(CommandNotEat),
                Command(CommandSaveMeal), Command(CommandHistory),
                Command(CommandHelp), FreeText(ApiOk(CompletionProse)),
                FreeText(ApiError), FreeText(ApiUnreachable)},
     images |-> {Image(ApiOk(CompletionPadThai)), Image(ApiOk(CompletionCat)),
                 Image(ApiOk(CompletionProse)), Image(ApiError),
                 Image(ApiUnreachable), ImageGone},
     tampered |-> {EatPrefix \o <<"{", "o", "o", "p", "s">>, EatPrefix \o <<"5">>,
                   <<"n", "o", "t", "_", "e", "a", "t">>,
                   LocationPrefix \o <<"1">>, LocationPrefix \o <<"x">>},
     locations |-> {Home},
     uploads |-> {ApiOk(CompletionPadThai), ApiError},
     forms |-> {MakeDict(<< <<K_name, JStr(<<"P", "a", "d">>)>>, <<K_protein, JNum(24)>>,
                            <<K_carbohydrate, JNull>>, <<K_fat, JNull>>,
                            <<K_sodium, JNull>>, <<K_calories, JNum(550)>> >>)},
     bodies |-> {MakeDict(<< <<K_user_id, JStr(<<"U", "1">>)>>,
                             <<K_food_name, JStr(<<"P", "a", "d">>)>>,
                             <<K_protein, JNum(24)>> >>),
                 MakeDict(<< <<K_food_name, JStr(<<"P", "a", "d">>)>> >>)},
     dboks |-> BOOLEAN,
     lines |-> LineOutcomes,
     max_rows |-> MaxFaultRecords,
     max_clock |-> 0,
     max_tied |-> MaxFaultRecords]

\* the data of the confirm action of the card sent for a completion text
TokenOf(content) ==
    create_flex_nutrition_message(classify_with_openai(ApiOk(content)).data).action.data

\* the inputs of the specification SpecMeals: one user's meals of two foods
\* and three places, and the user's history; the user's client still has
\* the confirm action of a Pad Thai card it was sent long ago
MealInputs ==
    [users |-> {"U1"},
     texts |-> {Command(CommandHistory)},
     images |-> {Image(ApiOk(CompletionPadThai)), Image(ApiOk(CompletionPartial))},
     tampered |-> {TokenOf(CompletionPadThai)},
     locations |-> {Home, Equator, Roadside},
     dboks |-> {TRUE},
     lines |-> {AllOk},
     max_rows |-> MaxRecords,
     max_clock |-> MaxClock,
     max_tied |-> MaxRecords]

\* the inputs of the specification SpecHistory: two users confirming the
\* same card again and again and asking for their history
HistoryInputs ==
    [users |-> Users,
     texts |-> {Command(CommandHistory)},
     images |-> {},
     tampered |-> {},
     locations |-> {},
     dboks |-> {TRUE},
     lines |-> {AllOk},
     max_rows |-> MaxHistoryRecords,
     max_clock |-> MaxHistoryClock,
     max_tied |-> MaxTied]

(***************************************************************************)
(* One action per kind of request; in is the record of input sets.         *)
(***************************************************************************)
TextTurn(in) ==
    \E u \in in.users, message \in in.texts, dbok \in in.dboks, line \in in.lines :
        \E picked \in (IF startswith(strip(message.text), EatPrefix)
                       THEN FirstResults(db, u) ELSE {0}),
           listed \in (IF strip(message.text) = CommandHistory
                       THEN HistoryResults(db, u) ELSE {<<>>}) :
            LET event == [type |-> "text", user |-> u, message |-> message]
                env == [now |-> LastCreated(db), dbok |-> dbok, line |-> line,
                        picked |-> picked, listed |-> listed]
            IN  Deliver(event, TRUE, env, in.max_rows)

ImageTurn(in) ==
    \E u \in in.users, message \in in.images, line \in in.lines :
        LET event == [type |-> "image", user |-> u, message |-> message]
            env == [now |-> LastCreated(db), dbok |-> TRUE, line |-> line,
                    picked |-> 0, listed |-> <<>>]
        IN  Deliver(event, TRUE, env, in.max_rows)

\* the clock values an insert may meet: at most in.max_tied rows share one
Ticks(in) ==
    {t \in LastCreated(db)..in.max_clock :
        Cardinality({i \in 1..Len(db) : db[i].created_at = t}) < in.max_tied}

\* the postback data a user's client may send: the confirm action of the
\* card the user holds, or anything else
PostbackData(in, u) ==
    in.tampered \cup (IF card[u] = NoCard THEN {} ELSE {card[u].data})

PostbackTurn(in) ==
    \E u \in in.users, dbok \in in.dboks, line \in in.lines,
       now \in Ticks(in) :
        \E data \in PostbackData(in, u) :
            LET event == [type |-> "postback", user |-> u, data |-> data]
                env == [now |-> now, dbok |-> dbok, line |-> line, picked |-> 0,
                        listed |-> <<>>]
            IN  Deliver(event, TRUE, env, in.max_rows)

LocationTurn(in) ==
    \E u \in in.users, message \in in.locations, dbok \in in.dboks,
       line \in in.lines :
        \E picked \in FirstResults(db, u) :
            LET event == [type |-> "location", user |-> u, message |-> message]
                env == [now |-> LastCreated(db), dbok |-> dbok, line |-> line,
                        picked |-> picked, listed |-> <<>>]
            IN  Deliver(event, TRUE, env, in.max_rows)

\* the events of the requests whose X-Line-Signature does not match
Forgeries(in, u) ==
    {[type |-> "text", user |-> u, message |-> FreeText(ApiOk(CompletionProse))],
     [type |-> "image", user |-> u, message |-> Image(ApiOk(CompletionPadThai))],
     [type |-> "location", user |-> u, message |-> Home]}
    \cup {[type |-> "postback", user |-> u, data |-> data] : data \in PostbackData(in, u)}

ForgedRequest(in) ==
    \E u \in in.users :
        \E event \in Forgeries(in, u), picked \in FirstResults(db, u) :
            Deliver(event, FALSE,
                    [now |-> LastCreated(db), dbok |-> TRUE, line |-> AllOk,
                     picked |-> picked, listed |-> <<>>], in.max_rows)

\* the requests to the other endpoints
EndpointEnv(line) ==
    [now |-> LastCreated(db), dbok |-> TRUE, line |-> line, picked |-> 0, listed |-> <<>>]

ClassifyRequest(in) ==
    \E api \in in.uploads :
        Commit([type |-> "classify", user |-> "none", message |-> Image(api)], TRUE,
               EndpointEnv(AllOk), classify_image(db, api), in.max_rows)

DebugFormRequest(in) ==
    \E u \in in.users, form \in in.forms, line \in in.lines :
        Commit([type |-> "debug_form", user |-> u, form |-> form], TRUE,
               EndpointEnv(line), debug_send_nutrition(db, u, form, line), in.max_rows)

DebugJsonRequest(in) ==
    \E data \in in.bodies, line \in in.lines :
        Commit([type |-> "debug_json", user |-> "none", data |-> data], TRUE,
               EndpointEnv(line), debug_send_nutrition_json(db, data, line), in.max_rows)

Next ==
    \/ TextTurn(MainInputs)
    \/ ImageTurn(MainInputs)
    \/ PostbackTurn(MainInputs)
    \/ LocationTurn(MainInputs)
    \/ ForgedRequest(MainInputs)

Spec == Init /\ [][Next]_vars

NextFaults ==
    \/ TextTurn(FaultInputs)
    \/ ImageTurn(FaultInputs)
    \/ PostbackTurn(FaultInputs)
    \/ LocationTurn(FaultInputs)
    \/ ClassifyRequest(FaultInputs)
    \/ DebugFormRequest(FaultInputs)
    \/ DebugJsonRequest(FaultInputs)

SpecFaults == Init /\ [][NextFaults]_vars

NextMeals ==
    \/ TextTurn(MealInputs)
    \/ ImageTurn(MealInputs)
    \/ PostbackTurn(MealInputs)
    \/ LocationTurn(MealInputs)

SpecMeals == Init /\ [][NextMeals]_vars

\* both users were sent the Pad Thai card, U1 first
PadThaiEvent(u) == [type |-> "image", user |-> u, message |-> Image(ApiOk(CompletionPadThai))]

InitHistory ==
    /\ db = <<>>
    /\ card = CardAfter(CardAfter([u \in Users |-> NoCard], PadThaiEvent("U1"),
                                  webhook(<<>>, PadThaiEvent("U1"), TRUE, NoEnv).out),
                        PadThaiEvent("U2"),
                        webhook(<<>>, PadThaiEvent("U2"), TRUE, NoEnv).out)
    /\ turn = TurnAfter(<<>>, PadThaiEvent("U2"), TRUE, NoEnv,
                        webhook(<<>>, PadThaiEvent("U2"), TRUE, NoEnv))

NextHistory ==
    \/ PostbackTurn(HistoryInputs)
    \/ TextTurn(HistoryInputs)

SpecHistory == InitHistory /\ [][NextHistory]_vars

(***************************************************************************)
(* The pure parts.  In SpecClassify and SpecToken the initial state holds  *)
(* one image request in flight, whose completion text is drawn from a      *)
(* bounded set; ImagePending is handle_image_message answering it.         *)
(***************************************************************************)
InFlight(event) == [NoTurn EXCEPT !.event = event]

ImagePending(in) ==
    /\ turn.event.type = "image"
    /\ turn.status = 0
    /\ \E line \in in.lines :
          LET env == [now |-> LastCreated(db), dbok |-> TRUE, line |-> line,
                      picked |-> 0, listed |-> <<>>]
          IN  Deliver(turn.event, TRUE, env, in.max_rows)

\* the pieces completion texts are made of
Fragments ==
    {<<"{">>, <<"}">>, <<"\"", "k", "\"", ":", "1">>,
     <<"\"", "i", "s", "_", "f", "o", "o", "d", "\"", ":", "t", "r", "u", "e">>,
     <<"\"", "i", "s", "_", "f", "o", "o", "d", "\"", ":", "f", "a", "l", "s", "e">>,
     <<",">>, <<"x">>, <<" ">>, <<"\"">>, <<":">>}

\* the texts of at most n pieces
RECURSIVE Texts(_)
Texts(n) ==
    IF n = 0 THEN {<<>>}
    ELSE LET shorter == Texts(n - 1)
         IN  shorter \cup {t \o f : t \in shorter, f \in Fragments}

ClassifyInputs ==
    [users |-> {"U1"}, texts |-> {}, images |-> {}, tampered |-> {},
     locations |-> {}, dboks |-> {TRUE}, lines |-> {AllOk},
     max_rows |-> 0, max_clock |-> 0, max_tied |-> 0]

InitClassify ==
    /\ db = <<>>
    /\ card = [u \in Users |-> NoCard]
    /\ \E content \in Texts(MaxFragments) :
          turn = InFlight([type |-> "image", user |-> "U1",
                           message |-> Image(ApiOk(content))])

NextClassify == ImagePending(ClassifyInputs)

SpecClassify == InitClassify /\ [][NextClassify]_vars

\* the fields of a classification that the card and the token read
FoodFields == <<K_name, K_protein, K_carbohydrate, K_fat, K_sodium, K_calories>>

\* values for the fields: a plain food, a name that needs escaping beside
\* zeros, and a classifier that wrote null and texts where numbers belong
FoodValues ==
    {MakeDict(<< <<K_name, JStr(<<"P", "a", "d", " ", "T", "h", "a", "i">>)>>,
                 <<K_protein, JNum(24)>>, <<K_carbohydrate, JNum(30)>>,
                 <<K_fat, JNum(20)>>, <<K_sodium, JNum(10)>>,
                 <<K_calories, JNum(550)>> >>),
     MakeDict(<< <<K_name, JStr(<<"U0E1C", "\"", "\\", "d", "\n">>)>>,
                 <<K_protein, JNum(0)>>, <<K_carbohydrate, JNum(7)>>,
                 <<K_fat, JNum(0)>>, <<K_sodium, JNum(-1)>>,
                 <<K_calories, JNum(0)>> >>),
     MakeDict(<< <<K_name, JNull>>,
                 <<K_protein, JStr(<<"1", "2", "g">>)>>, <<K_carbohydrate, JNull>>,
                 <<K_fat, JBool(TRUE)>>, <<K_sodium, JStr(<<>>)>>,
                 <<K_calories, JStr(<<"5", "5", "0">>)>> >>)}

\* the food classifications: any of the fields may be absent
FoodInfos ==
    {[k \in {K_is_food} \cup present |->
         IF k = K_is_food THEN JBool(TRUE) ELSE values[k]] :
     present \in SUBSET {FoodFields[i] : i \in 1..Len(FoodFields)},
     values \in FoodValues}

\* the completion text that states a classification
CompletionOf(food_info) ==
    <<"o", "k", " ">>
    \o dumps(SelectSeq(<<K_is_food>> \o FoodFields, LAMBDA k : k \in DOMAIN food_info),
             food_info)

TokenInputs ==
    [users |-> {"U1"}, texts |-> {}, images |-> {}, tampered |-> {},
     locations |-> {}, dboks |-> {TRUE}, lines |-> {AllOk},
     max_rows |-> MaxTokenRecords, max_clock |-> 0, max_tied |-> MaxTokenRecords]

InitToken ==
    /\ db = <<>>
    /\ card = [u \in Users |-> NoCard]
    /\ \E food_info \in FoodInfos :
          turn = InFlight([type |-> "image", user |-> "U1",
                           message |-> Image(ApiOk(CompletionOf(food_info)))])

NextToken ==
    \/ ImagePending(TokenInputs)
    \/ PostbackTurn(TokenInputs)

SpecToken == InitToken /\ [][NextToken]_vars

(***************************************************************************)
(* A location turn in steps.  Each request has a session of its own on the *)
(* one database, so between the query of handle_location_message and its   *)
(* commit a confirm turn of another worker may insert and commit.  While   *)
(* the location turn is in flight, turn holds its event, the row its query *)
(* returned (env.picked) and the length of the table at the query          *)
(* (rows_before); its status is 0 until the handler returns.               *)
(***************************************************************************)
NextRace ==
    \* handle_location_message up to the query: first() returns picked
    \/ /\ ~(turn.event.type = "location" /\ turn.status = 0)
       /\ \E u \in MealInputs.users, message \in MealInputs.locations :
             \E picked \in FirstResults(db, u) :
                turn' = [InFlight([type |-> "location", user |-> u, message |-> message])
                            EXCEPT !.env.picked = picked, !.rows_before = Len(db)]
       /\ UNCHANGED <<db, card>>
    \* a confirm turn, whole: handle_postback inserts, commits and replies
    \/ \E u \in MealInputs.users, data \in MealInputs.tampered, now \in Ticks(MealInputs) :
          LET event == [type |-> "postback", user |-> u, data |-> data]
              r == webhook(db, event, TRUE, [NoEnv EXCEPT !.now = now])
          IN  /\ Len(r.out.db) <= MealInputs.max_rows
              /\ db' = r.out.db
              /\ UNCHANGED <<card, turn>>
    \* handle_location_message from the assignments on: the row its query
    \* returned is written and committed in the table as it is now
    \/ /\ turn.event.type = "location" /\ turn.status = 0
       /\ LET r == webhook(db, turn.event, TRUE, turn.env)
          IN  /\ db' = r.out.db
              /\ turn' = [TurnAfter(db, turn.event, TRUE, turn.env, r)
                             EXCEPT !.rows_before = turn.rows_before]
       /\ UNCHANGED card

SpecRace == Init /\ [][NextRace]_vars

(***************************************************************************)
(* Properties.                                                             *)
(***************************************************************************)
\* C6: a request whose signature is invalid is answered with status 400, no
\* handler runs for it, no classifier or advice API call is made, no message
\* is sent, and the table and the cards the users hold are as before.
C6_InvalidSignatureRejected ==
    [][~turn'.signature_valid =>
          /\ turn'.status = 400
          /\ ~turn'.handled
          /\ turn'.api_calls = 0
          /\ turn'.sends = <<>>
          /\ db' = db
          /\ card' = card]_vars

\* a forged confirm postback carrying the token of the card the user really
\* holds has been answered
C6_Witness ==
    /\ ~turn.signature_valid
    /\ turn.event.type = "postback"
    /\ card[turn.event.user] # NoCard
    /\ turn.event.data = card[turn.event.user].data
    /\ turn.status = 400

\* C9: an event of one user inserts records of that user only and changes no
\* field of another user's record; no record's user_id ever changes.
C9_UserIsolation ==
    [][/\ Len(db') >= Len(db)
       /\ \A i \in 1..Len(db) :
            /\ db'[i].user_id = db[i].user_id
            /\ db[i].user_id # turn'.event.user => db'[i] = db[i]
       /\ \A i \in (Len(db) + 1)..Len(db') : db'[i].user_id = turn'.event.user]_vars

\* a location message of one user has been stored while the newest record
\* of the table belongs to the other user and has no location
C9_Witness ==
    /\ turn.event.type = "location"
    /\ turn.handled
    /\ Len(db) = 2
    /\ db[1].user_id = turn.event.user
    /\ db[1].latitude # JNull
    /\ db[2].user_id # turn.event.user
    /\ db[2].latitude = JNull
    /\ db[2].created_at > db[1].created_at

\* C10: no record is ever removed, and the only fields of a stored record
\* that a request changes are latitude, longitude and location_name.
C10_AppendOnly ==
    [][/\ Len(db') >= Len(db)
       /\ \A i \in 1..Len(db) :
            [db'[i] EXCEPT !.latitude = db[i].latitude,
                           !.longitude = db[i].longitude,
                           !.location_name = db[i].location_name] = db[i]]_vars

\* a location message has written its coordinates into a stored record
C10_Witness ==
    /\ turn.event.type = "location"
    /\ turn.handled
    /\ turn.env.picked # 0
    /\ db[turn.env.picked].latitude = JNum(turn.event.message.latitude)
    /\ db[turn.env.picked].location_name = turn.event.message.address
    /\ db[turn.env.picked].food_name # JStr(<<>>)

\* the send calls of a turn that carry an apology
Apologies(sends) ==
    {k \in 1..Len(sends) :
        /\ sends[k].message.type = "text"
        /\ \/ startswith(sends[k].message.text, <<"TEXT_SORRY_CANNOT_ANALYZE_IMAGE">>)
           \/ sends[k].message.text \in {<<"TEXT_SORRY_CANNOT_SAVE">>,
                                         <<"TEXT_SORRY_CANNOT_ASK_LOCATION">>,
                                         <<"TEXT_SORRY_CANNOT_SAVE_LOCATION">>,
                                         <<"TEXT_SORRY_CANNOT_ADVISE_NOW">>}}

\* something other than a send call raised while the turn's handler ran:
\* the storage, the download of the image, the classifier or advice call, or
\* the decoding of the postback data
TurnRaised ==
    \/ ~turn.env.dbok
    \/ /\ turn.event.type = "image"
       /\ ~turn.event.message.fetched \/ turn.event.message.api.status # 200
    \/ /\ turn.event.type = "text"
       /\ turn.api_calls = 1
       /\ turn.event.message.api.status = 0
    \/ /\ turn.event.type = "postback"
       /\ startswith(turn.event.data, EatPrefix)
       /\ LET parsed == loads(SliceFrom(turn.event.data, 4))
          IN  ~(parsed.ok /\ parsed.val.t = "obj")
    \/ /\ turn.event.type = "postback"
       /\ ~startswith(turn.event.data, EatPrefix)
       /\ startswith(turn.event.data, LocationPrefix)
       /\ ~IsIntText(SecondField(turn.event.data))

\* C7: in a text, image, postback or location turn whose send calls all
\* succeed, whatever raises in the classifier or advice call, in the download
\* of the image, in decoding or in the storage is caught in the turn's
\* handler and answered with exactly one apology; nothing leaves the handler.
C7_ExceptionsBecomeOneApology ==
    (turn.handled /\ TurnRaised /\ \A k \in 1..Len(turn.sends) : turn.sends[k].ok) =>
        /\ ~turn.escaped
        /\ Cardinality(Apologies(turn.sends)) = 1

\* C1: once the confirm postback carrying the token of the food card a user
\* was sent is handled for that user and stored, the newest record of that
\* user, whichever row the query for it returns, has the food_name and the
\* calories of the classification the card was built from.
C1_ConfirmedMealIsNewest ==
    LET u == turn.event.user
        food_info == card[u].food_info
    IN  (/\ turn.event.type = "postback"
         /\ turn.handled
         /\ card[u] # NoCard
         /\ turn.event.data = card[u].data
         /\ K_name \in DOMAIN food_info
         /\ K_calories \in DOMAIN food_info
         /\ Len(db) = turn.rows_before + 1) =>
            \A p \in FirstResults(db, u) :
                /\ db[p].food_name = food_info[K_name]
                /\ db[p].calories = food_info[K_calories]

\* C5: after two location messages of one user in succession, with different
\* coordinates and both answered as saved, the user's most recent record,
\* whichever row the query for it returns, holds the second message's
\* latitude, longitude and address, and the table has as many rows as before.
C5_LastLocationWins ==
    [][(/\ turn.event.type = "location"
        /\ turn'.event.type = "location"
        /\ turn.handled /\ turn'.handled
        /\ turn.event.user = turn'.event.user
        /\ turn.event.message # turn'.event.message
        /\ turn.env.picked # 0 /\ turn'.env.picked # 0) =>
           /\ Len(db') = turn.rows_before
           /\ \A p \in FirstResults(db', turn'.event.user) :
                 /\ db'[p].latitude = JNum(turn'.event.message.latitude)
                 /\ db'[p].longitude = JNum(turn'.event.message.longitude)
                 /\ db'[p].location_name = turn'.event.message.address]_vars

\* C4: the records a history request shows are at most 5, all of the asking
\* user, each strictly newer than the next, and none of the user's records
\* left out is as new as one that is shown.
C4_HistoryNewestFive ==
    LET u == turn.event.user
        listed == turn.env.listed
        shown == {listed[k] : k \in 1..Len(listed)}
    IN  (/\ turn.event.type = "text"
         /\ strip(turn.event.message.text) = CommandHistory
         /\ turn.handled
         /\ turn.status = 200) =>
            /\ Len(listed) <= 5
            /\ Cardinality(shown) = Len(listed)
            /\ shown \subseteq RowsOf(db, u)
            /\ Len(listed) < 5 => shown = RowsOf(db, u)
            /\ listed # <<>> => turn.sends[1].message.records = listed
            /\ \A k \in 1..(Len(listed) - 1) :
                   db[listed[k]].created_at > db[listed[k + 1]].created_at
            /\ \A i \in shown, j \in RowsOf(db, u) \ shown :
                   db[i].created_at > db[j].created_at

\* the value the token is built with for a field: the classification's, or
\* the default of the field when the classification has none
UsedValue(food_info, key) ==
    IF key \in DOMAIN food_info THEN food_info[key]
    ELSE IF key = K_name THEN JStr(<<>>) ELSE JNum(0)

\* C2: the data of the confirm action of every food card starts with eat_,
\* and what follows parses as a JSON object whose keys n, p, c, f, s and k
\* hold the name, protein, carbohydrate, fat, sodium and calories values the
\* token was built with, for a classification with any of them absent.
C2_TokenRoundTrip ==
    \A u \in Users :
        card[u] # NoCard =>
            LET decoded == loads(SliceFrom(card[u].data, 4))
            IN  /\ startswith(card[u].data, EatPrefix)
                /\ decoded.ok
                /\ decoded.val.t = "obj"
                /\ DOMAIN decoded.val.o = {K_n, K_p, K_c, K_f, K_s, K_k}
                /\ decoded.val.o[K_n] = UsedValue(card[u].food_info, K_name)
                /\ decoded.val.o[K_p] = UsedValue(card[u].food_info, K_protein)
                /\ decoded.val.o[K_c] = UsedValue(card[u].food_info, K_carbohydrate)
                /\ decoded.val.o[K_f] = UsedValue(card[u].food_info, K_fat)
                /\ decoded.val.o[K_s] = UsedValue(card[u].food_info, K_sodium)
                /\ decoded.val.o[K_k] = UsedValue(card[u].food_info, K_calories)

\* a card was built from a classification without calories and sodium, with
\* a name that needs escaping and with protein and carbohydrate that differ
C2_Witness ==
    /\ card["U1"] # NoCard
    /\ DOMAIN card["U1"].food_info = {K_is_food, K_name, K_protein, K_carbohydrate, K_fat}
    /\ card["U1"].food_info[K_name] = JStr(<<"U0E1C", "\"", "\\", "d", "\n">>)
    /\ card["U1"].food_info[K_protein] # card["U1"].food_info[K_carbohydrate]

\* C3: when the classifier API answers with success and the completion text
\* has no opening brace, no closing brace, its last closing brace before its
\* first opening brace, or no valid JSON from the first opening to the last
\* closing brace, the classification is the fixed fallback (not food, other,
\* unknown), nothing is raised, and the only reply of the image turn is the
\* non-food card built from the fallback.
C3_FallbackOnUnreadableText ==
    LET content == turn.event.message.api.content
        opening == {i \in 1..Len(content) : content[i] = "{"}
        closing == {i \in 1..Len(content) : content[i] = "}"}
        first == CHOOSE i \in opening : \A j \in opening : i <= j
        last == CHOOSE i \in closing : \A j \in closing : j <= i
        unreadable ==
            \/ opening = {}
            \/ closing = {}
            \/ last < first
            \/ ~loads(SubSeq(content, first, last)).ok
    IN  (/\ turn.event.type = "image"
         /\ turn.handled
         /\ turn.event.message.fetched
         /\ turn.event.message.api.status = 200
         /\ unreadable) =>
            /\ turn.classified = [raised |-> FALSE, data |-> FallbackResult, error |-> <<>>]
            /\ ~Truthy(turn.classified.data[K_is_food])
            /\ turn.classified.data[K_category] = JStr(<<"o", "t", "h", "e", "r">>)
            /\ turn.classified.data[K_subcategory] = JStr(<<"u", "n", "k", "n", "o", "w", "n">>)
            /\ ~turn.escaped
            /\ turn.status = 200
            /\ turn.sends = <<[api |-> "reply", to |-> ReplyToken, ok |-> TRUE,
                               message |-> create_non_food_flex_message(FallbackResult)]>>

\* the image turn has answered a text whose braces enclose a JSON object and
\* one more closing brace
C3_Witness ==
    /\ turn.event.type = "image"
    /\ turn.handled
    /\ turn.event.message.api.content =
          <<"{", "\"", "k", "\"", ":", "1", "}", "}">>
    /\ turn.sends # <<>>
    /\ turn.sends[1].message.card = "non_food"

\* the rows a food card must show for a classification
ExpectedRows(food_info) ==
    LET shown(key) == IF key \in DOMAIN food_info THEN PyStr(food_info[key])
                      ELSE <<"N", "/", "A">>
    IN  << [label |-> <<"LABEL_CALORIES">>, text |-> shown(K_calories) \o <<" ">> \o <<"UNIT_KILOCALORIES">>],
           [label |-> <<"LABEL_PROTEIN">>, text |-> shown(K_protein) \o <<" ">> \o <<"UNIT_GRAMS">>],
           [label |-> <<"LABEL_FAT">>, text |-> shown(K_fat) \o <<" ">> \o <<"UNIT_GRAMS">>],
           [label |-> <<"LABEL_CARBOHYDRATE">>, text |-> shown(K_carbohydrate) \o <<" ">> \o <<"UNIT_GRAMS">>],
           [label |-> <<"LABEL_SODIUM">>, text |-> shown(K_sodium) \o <<" ">> \o <<"UNIT_MILLIGRAMS">>] >>

\* C8: every food card has exactly five nutrition rows, calories, protein,
\* fat, carbohydrate, sodium in this order, each showing the value and the
\* unit (kilocalories, grams, grams, grams, milligrams); a value missing from
\* the classification shows as N/A and its row is there.
C8_FiveNutritionRows ==
    \A k \in 1..Len(turn.sends) :
        (turn.sends[k].message.type = "flex" /\ turn.sends[k].message.card = "food") =>
            /\ Len(turn.sends[k].message.rows) = 5
            /\ turn.sends[k].message.rows = ExpectedRows(turn.classified.data)

\* a food card was sent for a classification that has protein and sodium
\* and none of calories, fat and carbohydrate
C8_Witness ==
    /\ turn.event.type = "image"
    /\ turn.sends # <<>>
    /\ turn.sends[1].message.type = "flex"
    /\ turn.sends[1].message.card = "food"
    /\ DOMAIN turn.classified.data = {K_is_food, K_protein, K_sodium}
    /\ turn.sends[1].message.rows[1].text = <<"N", "/", "A", " ">> \o <<"UNIT_KILOCALORIES">>

\* C11: handling a confirm postback whose token decodes to an object, with
\* the storage working, appends exactly one record, of the acting user, and
\* leaves the earlier rows as they were; the record is stored whether or not
\* the send calls succeed; the first send call is the reply that says the
\* meal is saved; only when that reply went out, the second is the location
\* prompt, pushed to the acting user and carrying the id of the new record.
C11_InsertThenConfirmThenPrompt ==
    [][LET u == turn'.event.user
           parsed == loads(SliceFrom(turn'.event.data, 4))
       IN  (/\ turn'.event.type = "postback"
            /\ turn'.handled
            /\ startswith(turn'.event.data, EatPrefix)
            /\ parsed.ok /\ parsed.val.t = "obj"
            /\ turn'.env.dbok) =>
               /\ Len(db') = Len(db) + 1
               /\ SubSeq(db', 1, Len(db)) = db
               /\ db'[Len(db')].user_id = u
               /\ turn'.sends # <<>>
               /\ turn'.sends[1].api = "reply"
               /\ turn'.sends[1].message = TextSendMessage(<<"TEXT_MEAL_SAVED">>)
               /\ turn'.sends[1].ok =>
                      /\ Len(turn'.sends) >= 2
                      /\ turn'.sends[2].api = "push"
                      /\ turn'.sends[2].to = u
                      /\ turn'.sends[2].message = LocationPrompt(db'[Len(db')].id)
               /\ ~turn'.sends[1].ok =>
                      \A k \in 1..Len(turn'.sends) : turn'.sends[k].api # "push"]_vars

\* the user's second confirm of the card they hold was stored as record 2,
\* confirmed, and followed by the prompt whose action is location_2
C11_Witness ==
    /\ turn.event.type = "postback"
    /\ card[turn.event.user] # NoCard
    /\ turn.event.data = card[turn.event.user].data
    /\ Len(db) = 2
    /\ turn.rows_before = 1
    /\ Len(turn.sends) = 2
    /\ turn.sends[1].ok /\ turn.sends[2].ok
    /\ turn.sends[2].message.quick_reply.data = LocationPrefix \o <<"2">>

\* the record of a user that was created last
LastRowOf(rows, u) == CHOOSE i \in RowsOf(rows, u) : \A j \in RowsOf(rows, u) : j <= i

\* C12: a location message that is stored adds and removes no record; when
\* the user has records, the record of the user created last gets the
\* message's latitude, longitude and address and every other record of the
\* table is as before; when the user has none, the table is as before.
C12_LocationIntoNewestOnly ==
    [][LET u == turn'.event.user
           message == turn'.event.message
       IN  (/\ turn'.event.type = "location"
            /\ turn'.handled
            /\ turn'.env.dbok) =>
               /\ Len(db') = Len(db)
               /\ RowsOf(db, u) = {} => db' = db
               /\ RowsOf(db, u) # {} =>
                      /\ db'[LastRowOf(db, u)] =
                            [db[LastRowOf(db, u)] EXCEPT
                                !.latitude = JNum(message.latitude),
                                !.longitude = JNum(message.longitude),
                                !.location_name = message.address]
                      /\ \A i \in 1..Len(db) :
                            i # LastRowOf(db, u) => db'[i] = db[i]]_vars

\* C13: whatever request adds a record to the table is a confirm postback
\* (its data starts with eat_) that a handler ran for: no image, text or
\* location message, no location_ postback, no request to /classify or to a
\* debug endpoint makes the table longer.
C13_OnlyConfirmInserts ==
    [][Len(db') > Len(db) =>
          /\ turn'.event.type = "postback"
          /\ turn'.handled
          /\ startswith(turn'.event.data, EatPrefix)]_vars

\* /classify has classified an upload as food while the table held a
\* record, and the table holds that one record still
C13_Witness ==
    /\ turn.event.type = "classify"
    /\ turn.status = 200
    /\ Truthy(DictGet(turn.classified.data, K_is_food, JBool(FALSE)))
    /\ turn.rows_before = 1
    /\ Len(db) = 1

\* C14: handling a text message, whatever its text (eat_..., the decline
\* text, the save-meal, history and help commands, free text) and whatever
\* raises meanwhile, leaves every record of the table as it was and adds
\* none; and in every turn in which the calls the handler makes (the query,
\* the advice API request, the reply) do not raise, exactly one message is
\* sent, as the reply.
C14_TextRepliesAndKeepsStore ==
    [][(turn'.event.type = "text" /\ turn'.handled) =>
          /\ db' = db
          /\ (/\ turn'.env.dbok
              /\ turn'.env.line[1]
              /\ turn'.api_calls = 1 => turn'.event.message.api.status # 0) =>
                 /\ Len(turn'.sends) = 1
                 /\ turn'.sends[1].api = "reply"
                 /\ turn'.sends[1].ok
                 /\ turn'.status = 200]_vars

\* the history command was answered with the carousel of the user's two
\* records
C14_Witness ==
    /\ turn.event.type = "text"
    /\ strip(turn.event.message.text) = CommandHistory
    /\ turn.status = 200
    /\ Len(db) = 2
    /\ Len(turn.env.listed) = 2
    /\ turn.sends[1].message.type = "flex"

\* C15: a record is stored without a location, so its location fields are
\* modified at most once exactly when no request changes the latitude, the
\* longitude or the location_name of a record that already has a latitude.
C15_LocationWrittenOnce ==
    [][\A i \in 1..Len(db) :
          db[i].latitude # JNull =>
             /\ db'[i].latitude = db[i].latitude
             /\ db'[i].longitude = db[i].longitude
             /\ db'[i].location_name = db[i].location_name]_vars

\* C16: when the data after eat_ of a confirm postback is not valid JSON or
\* is JSON but no object, or when the storage raises at the insert or the
\* commit, the table is as before, no message is pushed (no location
\* prompt), and, the reply call succeeding, the one message sent is the
\* reply that says the data cannot be saved.
C16_FailedConfirmSavesNothing ==
    [][LET parsed == loads(SliceFrom(turn'.event.data, 4))
       IN  (/\ turn'.event.type = "postback"
            /\ turn'.handled
            /\ startswith(turn'.event.data, EatPrefix)
            /\ ~parsed.ok \/ parsed.val.t # "obj" \/ ~turn'.env.dbok) =>
               /\ db' = db
               /\ \A k \in 1..Len(turn'.sends) : turn'.sends[k].api # "push"
               /\ turn'.env.line[1] =>
                      turn'.sends = <<[api |-> "reply", to |-> ReplyToken, ok |-> TRUE,
                                       message |-> TextSendMessage(<<"TEXT_SORRY_CANNOT_SAVE">>)]>>]_vars

\* the confirm action of the card the user holds was sent while the
\* storage raised, and was answered with the reply that nothing was saved
C16_Witness ==
    /\ turn.event.type = "postback"
    /\ card[turn.event.user] # NoCard
    /\ turn.event.data = card[turn.event.user].data
    /\ ~turn.env.dbok
    /\ Len(db) = turn.rows_before
    /\ Len(turn.sends) = 1
    /\ turn.sends[1].ok
    /\ turn.sends[1].message.text = <<"TEXT_SORRY_CANNOT_SAVE">>

\* the text t has the text p in it
Contains(t, p) == \E i \in 0..(Len(t) - Len(p)) : SubSeq(t, i + 1, i + Len(p)) = p

\* the messages that say the request cannot be analyzed or advised on now
CannotAnalyze(sends) ==
    {k \in 1..Len(sends) :
        /\ sends[k].message.type = "text"
        /\ \/ startswith(sends[k].message.text, <<"TEXT_SORRY_CANNOT_ANALYZE_IMAGE">>)
           \/ sends[k].message.text = <<"TEXT_SORRY_CANNOT_ADVISE_NOW">>}

\* C17: in an image turn whose image was fetched and in a free-text turn,
\* the send calls succeeding, when the completion API answered with a status
\* other than success the turn sent exactly one message, a plain text that
\* says the request cannot be analyzed now and has neither the API's status
\* nor its body in it, the API was called once, and the table is as long
\* as it was.
C17_UpstreamErrorIsGeneric ==
    LET api == turn.event.message.api
        asked == \/ turn.event.type = "image" /\ turn.event.message.fetched
                 \/ turn.event.type = "text" /\ turn.api_calls = 1
    IN  (/\ turn.handled
         /\ asked
         /\ api.status # 0 /\ api.status # 200
         /\ \A k \in 1..Len(turn.sends) : turn.sends[k].ok) =>
            /\ turn.api_calls = 1
            /\ Len(turn.sends) = 1
            /\ CannotAnalyze(turn.sends) = {1}
            /\ ~Contains(turn.sends[1].message.text, IntToText(api.status))
            /\ ~Contains(turn.sends[1].message.text, api.content)
            /\ Len(db) = turn.rows_before

\* C18: whatever happened since a card was sent (further images, location
\* messages, earlier confirms of the same token), a confirm postback whose
\* token decodes to an object adds, the storage working, one record that
\* holds the token's name.
C18_TokenNeverExpires ==
    [][LET parsed == loads(SliceFrom(turn'.event.data, 4))
       IN  (/\ turn'.event.type = "postback"
            /\ turn'.handled
            /\ startswith(turn'.event.data, EatPrefix)
            /\ parsed.ok /\ parsed.val.t = "obj"
            /\ turn'.env.dbok) =>
               /\ Len(db') = Len(db) + 1
               /\ db'[Len(db')].food_name = DictGet(parsed.val.o, K_n, JStr(<<>>))]_vars

\* the Pad Thai token was confirmed a second time, after its first record
\* got a location and after the user was sent the card of another food
C18_Witness ==
    /\ turn.event.type = "postback"
    /\ turn.event.data = TokenOf(CompletionPadThai)
    /\ card["U1"] # NoCard
    /\ card["U1"].data # turn.event.data
    /\ turn.rows_before = 1
    /\ Len(db) = 2
    /\ db[1].food_name = JStr(<<"P", "a", "d", " ", "T", "h", "a", "i">>)
    /\ db[1].latitude # JNull
    /\ db[2].food_name = db[1].food_name

\* the location line the history must show for a record
ExpectedLocationText(record) ==
    IF record.location_name.t = "str" /\ record.location_name.s # <<>>
    THEN <<"U1F4CD", " ">> \o record.location_name.s
    ELSE IF record.latitude # JNull /\ record.longitude # JNull
    THEN <<"U1F4CD", " ">> \o IntToText(record.latitude.n) \o <<".", "0", "0", "0", "0">>
         \o <<",", " ">> \o IntToText(record.longitude.n) \o <<".", "0", "0", "0", "0">>
    ELSE <<"TEXT_PIN_NO_LOCATION">>

\* C19: in the carousel that answers the history command, the location
\* line of each record is its location name when it has one; otherwise its
\* latitude and longitude with 4 decimal places when both are stored,
\* whatever their values, 0 included; and the no-location text only when
\* neither a name nor coordinates are stored.
C19_HistoryLocationLine ==
    (/\ turn.event.type = "text"
     /\ strip(turn.event.message.text) = CommandHistory
     /\ turn.handled
     /\ turn.sends # <<>>
     /\ turn.sends[1].message.type = "flex") =>
        \A k \in 1..Len(turn.env.listed) :
            turn.sends[1].message.contents[k].location_text =
                ExpectedLocationText(db[turn.env.listed[k]])

\* C20: an image turn whose classification came back (is_food being the
\* JSON true, the JSON false, or absent) and whose reply call succeeds sends
\* exactly one message, a card, as the reply: the food card when is_food is
\* true and the non-food card otherwise; the food card has the confirm
\* action whose data is eat_ and the token, which the user then holds; the
\* non-food card has no action and leaves what the users hold as it was.
C20_OneCardByIsFood ==
    [][LET data == turn'.classified.data
           message == turn'.sends[1].message
       IN  (/\ turn'.event.type = "image"
            /\ turn'.handled
            /\ turn'.event.message.fetched
            /\ ~turn'.classified.raised
            /\ turn'.env.line[1]) =>
               /\ Len(turn'.sends) = 1
               /\ turn'.sends[1].api = "reply"
               /\ message.type = "flex"
               /\ message.card \in {"food", "non_food"}
               /\ message.card = "food" <=>
                      (K_is_food \in DOMAIN data /\ data[K_is_food] = JBool(TRUE))
               /\ message.card = "food" =>
                      /\ message.action.type = "postback"
                      /\ startswith(message.action.data, EatPrefix)
                      /\ loads(SliceFrom(message.action.data, 4)).ok
                      /\ card'[turn'.event.user].data = message.action.data
               /\ message.card = "non_food" =>
                      /\ "action" \notin DOMAIN message
                      /\ card' = card]_vars

\* the classification {"is_food":false} was answered with the non-food card
C20_Witness ==
    /\ turn.event.type = "image"
    /\ turn.handled
    /\ turn.event.message.api.content =
          <<"{", "\"", "i", "s", "_", "f", "o", "o", "d", "\"", ":", "f", "a", "l", "s", "e", "}">>
    /\ turn.classified.data = MakeDict(<< <<K_is_food, JBool(FALSE)>> >>)
    /\ Len(turn.sends) = 1
    /\ turn.sends[1].message.card = "non_food"
    /\ card["U1"] = NoCard

\* the three location fields of a record
LocationOf(record) == <<record.latitude, record.longitude, record.location_name>>

\* C21: a record enters the table with latitude, longitude and location_name
\* all null, and whatever request makes one of the three fields of a stored
\* record differ from null, or changes it, is a location message of the
\* record's own user that a handler ran for; so a record has a location only
\* if such a message was handled after the record was inserted.
C21_LocationOnlyFromOwnLocationMessage ==
    [][/\ \A i \in (Len(db) + 1)..Len(db') :
             LocationOf(db'[i]) = <<JNull, JNull, JNull>>
       /\ \A i \in 1..Len(db) :
             LocationOf(db'[i]) # LocationOf(db[i]) =>
                /\ turn'.event.type = "location"
                /\ turn'.handled
                /\ turn'.event.user = db[i].user_id]_vars

\* a location message of a user was stored into that user's record while
\* the other user's record, inserted after it, has no location
C21_Witness ==
    /\ turn.event.type = "location"
    /\ turn.handled
    /\ turn.env.picked = 1
    /\ Len(db) = 2
    /\ db[1].user_id = turn.event.user
    /\ LocationOf(db[1]) = <<JNum(13), JNum(100), JStr(<<"H", "o", "m", "e">>)>>
    /\ db[2].user_id # turn.event.user
    /\ LocationOf(db[2]) = <<JNull, JNull, JNull>>

\* the send calls of a turn that delivered the text saying the meal is saved
MealSavedSent(sends) ==
    {k \in 1..Len(sends) :
        /\ sends[k].ok
        /\ sends[k].message = TextSendMessage(<<"TEXT_MEAL_SAVED">>)}

\* C22: in every turn in which the text saying the meal is saved reached
\* the user, as the answer to a confirm postback or to a text message that
\* starts with eat_, the turn added one record, of that user, to the table.
C22_SavedTextMeansRecord ==
    MealSavedSent(turn.sends) # {} =>
        /\ Len(db) = turn.rows_before + 1
        /\ db[Len(db)].user_id = turn.event.user

\* C23: in every confirm turn (a postback whose data starts with eat_)
\* whose last message, delivered, is the reply saying the data cannot be
\* saved, the table is as it was before the turn: no record was committed.
C23_CannotSaveMeansNoRecord ==
    (/\ turn.event.type = "postback"
     /\ turn.handled
     /\ startswith(turn.event.data, EatPrefix)
     /\ LastOk(turn.sends)
     /\ turn.sends[Len(turn.sends)].message = TextSendMessage(<<"TEXT_SORRY_CANNOT_SAVE">>)) =>
        Len(db) = turn.rows_before

\* the reply_message calls of a turn made with the event's reply token,
\* whether they raised or not
ReplyCalls(sends) ==
    {k \in 1..Len(sends) : sends[k].api = "reply" /\ sends[k].to = ReplyToken}

\* C24: in the turn of every event a handler ran for, reply_message is
\* called with the event's reply token at most once, whatever raises in the
\* turn; in particular, once a reply call of the turn has gone out, the
\* turn makes no second reply call with the token.
C24_ReplyTokenUsedOnce ==
    (/\ turn.handled
     /\ \E k \in ReplyCalls(turn.sends) : turn.sends[k].ok /\ k < Len(turn.sends)) =>
        Cardinality(ReplyCalls(turn.sends)) <= 1

\* C25: a postback whose data the bot wrote into an action (the confirm
\* action of the food card the user holds, the action location_<id> of the
\* prompt sent for a stored record, the decline action not_eat of the
\* eat-or-not question) is answered, the reply call succeeding, with a
\* reply to the user; the decline postback adds no record.
C25_EmittedPayloadsAnswered ==
    [][LET u == turn'.event.user
           data == turn'.event.data
           not_eat == <<"n", "o", "t", "_", "e", "a", "t">>
           emitted ==
               \/ card[u] # NoCard /\ data = card[u].data
               \/ \E i \in 1..Len(db) : data = LocationPrompt(db[i].id).quick_reply.data
               \/ data = not_eat
       IN  (/\ turn'.event.type = "postback"
            /\ turn'.handled
            /\ emitted
            /\ turn'.env.line[1]) =>
               /\ turn'.sends # <<>>
               /\ turn'.sends[1].api = "reply"
               /\ turn'.sends[1].ok
               /\ data = not_eat => db' = db]_vars

\* C26: when a location turn that read a record commits, whatever confirm
\* turns of the same user committed between its query and its commit, the
\* record it writes the message's coordinates into is a most recent record
\* of the user in the table as it is at the commit.
C26_LocationOnMostRecentAtCommit ==
    [][(/\ turn.event.type = "location"
        /\ turn.status = 0
        /\ turn.env.picked # 0
        /\ turn'.status # 0) =>
           /\ turn.env.picked \in FirstResults(db, turn.event.user)
           /\ LocationOf(db'[turn.env.picked]) =
                 <<JNum(turn.event.message.latitude), JNum(turn.event.message.longitude),
                   turn.event.message.address>>]_vars

\* the text a nutrition row of the card shows for a stored value
ShownAs(value, unit) == PyStr(value) \o <<" ">> \o unit

\* C27: once the confirm postback carrying the token of the food card a
\* user was sent is stored, the new record holds what the card showed: its
\* food_name is the card's title and its calories, protein, fat,
\* carbohydrate and sodium are the values of the card's five rows, for a
\* classification with any of the six fields absent.
C27_CardShowsWhatIsStored ==
    LET u == turn.event.user
        shown == create_flex_nutrition_message(card[u].food_info)
        record == db[Len(db)]
    IN  (/\ turn.event.type = "postback"
         /\ turn.handled
         /\ card[u] # NoCard
         /\ turn.event.data = card[u].data
         /\ Len(db) = turn.rows_before + 1) =>
            /\ shown.title = record.food_name
            /\ shown.rows[1].text = ShownAs(record.calories, <<"UNIT_KILOCALORIES">>)
            /\ shown.rows[2].text = ShownAs(record.protein, <<"UNIT_GRAMS">>)
            /\ shown.rows[3].text = ShownAs(record.fat, <<"UNIT_GRAMS">>)
            /\ shown.rows[4].text = ShownAs(record.carbohydrate, <<"UNIT_GRAMS">>)
            /\ shown.rows[5].text = ShownAs(record.sodium, <<"UNIT_MILLIGRAMS">>)

=============================================================================
